---- MODULE Spec2Model ----
(***************************************************************************)
(* Turn-based combat resolver of dnd-app: the CombatManager state machine  *)
(* (backend/src/utils/combat-manager.ts), the rules engine's attack and    *)
(* damage resolution it calls, and the character sheets the game driver    *)
(* (backend/src/cli/interactive-game.ts, EnhancedGame) builds rosters from *)
(* and writes combat HP back to.                                           *)
(***************************************************************************)
EXTENDS Integers, Sequences, FiniteSets, TLC

(***************************************************************************)
(* Bounds of the model.                                                    *)
(***************************************************************************)
MaxHP == 2          \* hp.max of every combatant
MaxInitiative == 2  \* initiative totals are drawn from 1..MaxInitiative
MaxRound == 3       \* nextTurn is not called once round has reached this
MaxLog == 5         \* operations that append stop once the log is this long
MaxLoopLog == 8     \* the same, for the combats the game driver runs
DamageSides == 3    \* sides of the damage die

(***************************************************************************)
(* Values of the program.                                                  *)
(***************************************************************************)
GoblinAC == 15      \* ENEMY_TEMPLATES.goblin.ac
FighterAC == 12     \* fighter template, ac.total
GoblinAttackBonus == 2
FighterAttackBonus == 3     \* baseAttackBonus 1 + strength modifier 2

PlayerIds == {"player1"}
EnemyIds == {"enemy1", "enemy2"}
Ids == PlayerIds \cup EnemyIds
UnknownId == "nobody"
Null == "null"
NaN == -1           \* the value of (x % 0) and of anything computed from it

\* inputs the operations are called with
D20Draws == {9, 10, 13}             \* values of the d20 draw, out of 1..20
AttackBonuses == {GoblinAttackBonus}
RandomDraws == {29, 30}         \* Math.random() in hundredths
DamageBonuses == {-1}
Amounts == 1..MaxHP                 \* damage / healing passed to applyDamage / applyHealing
Attackers == {"player1", "enemy1", UnknownId}   \* actorId passed to processAttack
\* the d20 and the damage die of one processAttack call: a low d20 with any
\* damage die (it is not rolled on a miss), the others with every damage die
AttackRolls == {<<9, 1>>} \cup ((D20Draws \ {9}) \X (1..DamageSides))

\* Persistence agent: the files it is asked to write and its callers
Paths == {"sheet"}
Writers == {"w1", "w2"}
NoFile == [kind |-> "none"]
IdleWriter == [pc |-> "idle"]

\* Coordinator agent: confirmation ids, and the players that answer
ConfirmationIds == {"edit1", "edit2"}
ConfirmPlayers == {"p1", "p2", "p3"}
NoConfirmation == [requested |-> FALSE]

\* Session state: createNewSession gives version 1 and phase setup
NewSession == [version |-> 1, gameState |-> [phase |-> "setup"]]

VARIABLES
    state,          \* CombatManager.state: round, turnIndex, combatants, combatLog, isActive
    dmAgent,        \* CombatManager.dmAgent: TRUE = a DMAgent, FALSE = null
    characters,     \* the driver's character sheets: player id -> hp.current
    inputRoster,    \* the array last passed to startCombat, as passed
    callerRoster,   \* the caller's array after that call returned
    pending,        \* processAttack calls suspended at their await
    ret,            \* what the last operation returned
    call,           \* the last call of a stateless function: arguments and result
    files,          \* the files under basePath: path -> what is stored there
    writers,        \* writeFile calls: caller -> position, request, what it read, response
    pendingConfirmations, \* CoordinatorAgent.pendingConfirmations: id -> entry
    session         \* the SessionState passed from one session-state function to the next

vars == <<state, dmAgent, characters, inputRoster, callerRoster, pending, ret, call, files, writers, pendingConfirmations, session>>

Max(a, b) == IF a >= b THEN a ELSE b
Min(a, b) == IF a <= b THEN a ELSE b

(***************************************************************************)
(* Combatants and log entries.                                             *)
(***************************************************************************)
Combatant(id, initiative, hpCurrent, isPlayer) ==
    [id |-> id, initiative |-> initiative,
     hp |-> [current |-> hpCurrent, max |-> MaxHP],
     ac |-> IF isPlayer THEN FighterAC ELSE GoblinAC,
     isPlayer |-> isPlayer, isDefeated |-> FALSE]

\* One entry of combatLog: which message it is (the names and numbers the
\* message interpolates are not kept).
LogEntry(kind) == [kind |-> kind]

RECURSIVE SeqSum(_)
SeqSum(s) == IF s = <<>> THEN 0 ELSE Head(s) + SeqSum(Tail(s))

(***************************************************************************)
(* Rules engine.                                                           *)
(***************************************************************************)
rollD20(d20, modifiers) ==
    [d20 |-> d20, total |-> d20 + SeqSum(modifiers),
     criticalHit |-> d20 = 20, criticalMiss |-> d20 = 1]

\* a total equal to the AC misses
resolveAttackStrict(d20, attackBonus, targetAC, additionalModifiers) ==
    LET roll == rollD20(d20, <<attackBonus>> \o additionalModifiers)
    IN [success |-> roll.total > targetAC, roll |-> roll, dc |-> targetAC]

resolveAttack(d20, attackBonus, targetAC, additionalModifiers) ==
    LET roll == rollD20(d20, <<attackBonus>> \o additionalModifiers)
    IN [success |-> roll.total >= targetAC, roll |-> roll, dc |-> targetAC]

rollDice(draws, modifier) == modifier + SeqSum(draws)

resolveDamage(draws, damageModifier) == Max(0, rollDice(draws, damageModifier))

(***************************************************************************)
(* CombatManager: reads.                                                   *)
(***************************************************************************)
\* A sort that is not stable: a combatant goes before those it ties with.
RECURSIVE InsertBeforeTies(_, _)
InsertBeforeTies(c, sorted) ==
    IF sorted = <<>> THEN <<c>>
    ELSE IF Head(sorted).initiative > c.initiative
         THEN <<Head(sorted)>> \o InsertBeforeTies(c, Tail(sorted))
         ELSE <<c>> \o sorted

\* Array.prototype.sort with (a, b) => b.initiative - a.initiative: stable.
RECURSIVE InsertByInitiative(_, _)
InsertByInitiative(c, sorted) ==
    IF sorted = <<>> THEN <<c>>
    ELSE IF Head(sorted).initiative >= c.initiative
         THEN <<Head(sorted)>> \o InsertByInitiative(c, Tail(sorted))
         ELSE <<c>> \o sorted

RECURSIVE SortByInitiative(_)
SortByInitiative(s) ==
    IF s = <<>> THEN <<>>
    ELSE InsertByInitiative(s[Len(s)], SortByInitiative(SubSeq(s, 1, Len(s) - 1)))

\* [...combatants]: the sort works on a copy, the argument keeps its order.
ArrayAfterSort(input) == input

IndexOf(st, id) ==
    IF \E i \in 1..Len(st.combatants) : st.combatants[i].id = id
    THEN CHOOSE i \in 1..Len(st.combatants) :
            /\ st.combatants[i].id = id
            /\ \A j \in 1..(i - 1) : st.combatants[j].id # id
    ELSE 0

\* the id of the combatant whose turn it is, or Null
getCurrentCombatant(st) ==
    IF ~st.isActive \/ Len(st.combatants) = 0 THEN Null
    ELSE st.combatants[st.turnIndex + 1].id

getActiveCombatants(st) ==
    SelectSeq(st.combatants, LAMBDA c : ~c.isDefeated)

\* An entry put at the front of the log (unshift for push).
addToLogFront(st, entry) == [st EXCEPT !.combatLog = <<entry>> \o @]

addToLog(st, entry) == [st EXCEPT !.combatLog = Append(@, entry)]

(***************************************************************************)
(* What an operation returns.                                              *)
(***************************************************************************)
NoRet ==
    [op |-> "none", actorId |-> Null, targetId |-> Null,
     outcome |-> "none", total |-> 0, success |-> FALSE, rolled |-> FALSE,
     damage |-> 0, newRound |-> FALSE, current |-> Null,
     ended |-> FALSE, winners |-> Null, actives |-> <<>>]

NoCall == [fn |-> "none"]

Init ==
    /\ state = [round |-> 0, turnIndex |-> 0, combatants |-> <<>>,
                combatLog |-> <<>>, isActive |-> FALSE]
    /\ dmAgent = TRUE
    /\ characters = [p \in PlayerIds |-> MaxHP]
    /\ inputRoster = <<>>
    /\ callerRoster = <<>>
    /\ pending = <<>>
    /\ ret = NoRet
    /\ call = NoCall
    /\ files = [p \in Paths |-> NoFile]
    /\ writers = [w \in Writers |-> IdleWriter]
    /\ pendingConfirmations = [id \in ConfirmationIds |-> NoConfirmation]
    /\ session = NewSession

\* The bound on the log: an operation that appends is taken only while the
\* log has room for the most entries it can append (`most`).
LogRoom(after, most) ==
    \/ after = state
    \/ Len(state.combatLog) + most <= MaxLog

(***************************************************************************)
(* startCombat.                                                            *)
(***************************************************************************)
\* The rosters the driver builds (EnhancedGame.startCombat): the players of
\* the character map in map order, hp.current copied from the sheet, then the
\* enemies from their template at full hp; every initiative is a fresh roll.
RECURSIVE SeqOfSet(_, _)
SeqOfSet(order, S) ==
    IF order = <<>> THEN <<>>
    ELSE (IF Head(order) \in S THEN <<Head(order)>> ELSE <<>>) \o SeqOfSet(Tail(order), S)

MapOrder == <<"player1", "enemy1", "enemy2">>
RosterSets == {{}, {"player1"}, {"player1", "enemy1"}, Ids}  \* who takes part
\* the initiative rolls of a combat: all tied, the last enemy ahead, the
\* player behind
InitiativeRolls ==
    { [id \in Ids |-> 1],
      [id \in Ids |-> IF id = "enemy2" THEN MaxInitiative ELSE 1],
      [id \in Ids |-> IF id \in PlayerIds THEN 1 ELSE MaxInitiative] }

DriverRosters(sheets) ==
    { [i \in 1..Len(SeqOfSet(MapOrder, S)) |->
          LET id == SeqOfSet(MapOrder, S)[i]
          IN Combatant(id, init[id],
                       IF id \in PlayerIds THEN sheets[id] ELSE MaxHP,
                       id \in PlayerIds)] :
      S \in RosterSets, init \in InitiativeRolls }

startCombat(st, combatants) ==
    LET sortedCombatants == SortByInitiative(combatants)
        fresh == [round |-> 1, turnIndex |-> 0, combatants |-> sortedCombatants,
                  combatLog |-> <<LogEntry("COMBAT BEGINS")>>,
                  isActive |-> TRUE]
    IN addToLog(fresh, LogEntry("Initiative order"))

StartCombat(combatants) ==
    /\ state' = startCombat(state, combatants)
    /\ inputRoster' = combatants
    /\ callerRoster' = ArrayAfterSort(combatants)
    /\ ret' = [NoRet EXCEPT !.op = "startCombat"]
    /\ UNCHANGED <<dmAgent, characters, pending, call, files, writers, pendingConfirmations, session>>

(***************************************************************************)
(* Reads.                                                                  *)
(***************************************************************************)
GetCurrentCombatant ==
    /\ ret' = [NoRet EXCEPT !.op = "getCurrentCombatant",
                            !.current = getCurrentCombatant(state)]
    /\ UNCHANGED <<state, dmAgent, characters, inputRoster, callerRoster, pending, call, files, writers, pendingConfirmations, session>>

GetActiveCombatants ==
    /\ ret' = [NoRet EXCEPT !.op = "getActiveCombatants",
                            !.actives = getActiveCombatants(state)]
    /\ UNCHANGED <<state, dmAgent, characters, inputRoster, callerRoster, pending, call, files, writers, pendingConfirmations, session>>

\* getState: a shallow copy of this.state (nothing of it is kept in ret)
GetState ==
    /\ ret' = [NoRet EXCEPT !.op = "getState"]
    /\ UNCHANGED <<state, dmAgent, characters, inputRoster, callerRoster, pending, call, files, writers, pendingConfirmations, session>>

\* getLog: a copy of this.state.combatLog (nothing of it is kept in ret)
GetLog ==
    /\ ret' = [NoRet EXCEPT !.op = "getLog"]
    /\ UNCHANGED <<state, dmAgent, characters, inputRoster, callerRoster, pending, call, files, writers, pendingConfirmations, session>>

(***************************************************************************)
(* nextTurn.                                                               *)
(***************************************************************************)
\* (turnIndex + 1) % combatants.length
Advance(turnIndex, n) ==
    IF n = 0 \/ turnIndex = NaN THEN NaN ELSE (turnIndex + 1) % n

\* A round that is announced but not counted.
announceRound(moved) == addToLog(moved, LogEntry("ROUND"))

\* this.state.round++ and the log entry of the new round
completeRound(moved) ==
    addToLog([moved EXCEPT !.round = @ + 1], LogEntry("ROUND"))

\* The loop with the defeated combatant skipped before the round is looked
\* at: position 0 is passed over too when its combatant is defeated.
RECURSIVE nextTurnLoopDefeatedFirst(_, _)
nextTurnLoopDefeatedFirst(st, attempts) ==
    LET maxAttempts == Len(st.combatants)
        moved == [st EXCEPT !.turnIndex = Advance(st.turnIndex, maxAttempts)]
        tried == attempts + 1
        current == IF maxAttempts = 0 THEN Null ELSE getCurrentCombatant(moved)
    IN  IF current # Null /\ ~moved.combatants[moved.turnIndex + 1].isDefeated
        THEN IF moved.turnIndex = 0
             THEN LET logged == completeRound(moved)
                  IN [state |-> logged, newRound |-> TRUE,
                      current |-> getCurrentCombatant(logged), attempts |-> tried]
             ELSE [state |-> moved, newRound |-> FALSE, current |-> current,
                   attempts |-> tried]
        ELSE IF tried < maxAttempts
             THEN nextTurnLoopDefeatedFirst(moved, tried)
             ELSE [state |-> moved, newRound |-> FALSE, current |-> Null,
                   attempts |-> tried]

\* the do ... while loop of nextTurn, entered with `attempts` tries made
RECURSIVE nextTurnLoop(_, _)
nextTurnLoop(st, attempts) ==
    LET maxAttempts == Len(st.combatants)
        moved == [st EXCEPT !.turnIndex = Advance(st.turnIndex, maxAttempts)]
        tried == attempts + 1
    IN  IF moved.turnIndex = 0
        THEN LET logged == completeRound(moved)
             IN [state |-> logged, newRound |-> TRUE,
                 current |-> getCurrentCombatant(logged), attempts |-> tried]
        ELSE LET current == IF maxAttempts = 0 THEN Null ELSE getCurrentCombatant(moved)
             IN IF current # Null
                   /\ ~moved.combatants[moved.turnIndex + 1].isDefeated
                THEN [state |-> moved, newRound |-> FALSE, current |-> current,
                      attempts |-> tried]
                ELSE IF tried < maxAttempts
                     THEN nextTurnLoop(moved, tried)
                     ELSE [state |-> moved, newRound |-> FALSE, current |-> Null,
                           attempts |-> tried]

nextTurn(st) ==
    IF ~st.isActive
    THEN [state |-> st, newRound |-> FALSE, current |-> Null, attempts |-> 0]
    ELSE nextTurnLoop(st, 0)

NextTurn ==
    /\ state.round < MaxRound
    /\ LET r == nextTurn(state)
       IN /\ LogRoom(r.state, 1)
          /\ state' = r.state
          /\ ret' = [NoRet EXCEPT !.op = "nextTurn", !.newRound = r.newRound,
                                  !.current = r.current]
    /\ UNCHANGED <<dmAgent, characters, inputRoster, callerRoster, pending, call, files, writers, pendingConfirmations, session>>

(***************************************************************************)
(* checkCombatEnd, endCombat.                                              *)
(***************************************************************************)
\* An end that is reported only while the combat is active.
checkCombatEndWhileActive(st) ==
    LET activePlayers == SelectSeq(st.combatants, LAMBDA c : c.isPlayer /\ ~c.isDefeated)
        activeEnemies == SelectSeq(st.combatants, LAMBDA c : ~c.isPlayer /\ ~c.isDefeated)
    IN  IF st.isActive /\ Len(activePlayers) = 0
        THEN [state |-> addToLog([st EXCEPT !.isActive = FALSE],
                                 LogEntry("All players defeated")),
              ended |-> TRUE, winners |-> "enemies"]
        ELSE IF st.isActive /\ Len(activeEnemies) = 0
        THEN [state |-> addToLog([st EXCEPT !.isActive = FALSE],
                                 LogEntry("All enemies defeated")),
              ended |-> TRUE, winners |-> "players"]
        ELSE [state |-> st, ended |-> FALSE, winners |-> Null]

\* The two sides looked at in the other order.
checkCombatEndEnemiesFirst(st) ==
    LET activePlayers == SelectSeq(st.combatants, LAMBDA c : c.isPlayer /\ ~c.isDefeated)
        activeEnemies == SelectSeq(st.combatants, LAMBDA c : ~c.isPlayer /\ ~c.isDefeated)
    IN  IF Len(activeEnemies) = 0
        THEN [state |-> addToLog([st EXCEPT !.isActive = FALSE],
                                 LogEntry("All enemies defeated")),
              ended |-> TRUE, winners |-> "players"]
        ELSE IF Len(activePlayers) = 0
        THEN [state |-> addToLog([st EXCEPT !.isActive = FALSE],
                                 LogEntry("All players defeated")),
              ended |-> TRUE, winners |-> "enemies"]
        ELSE [state |-> st, ended |-> FALSE, winners |-> Null]

checkCombatEnd(st) ==
    LET activePlayers == SelectSeq(st.combatants, LAMBDA c : c.isPlayer /\ ~c.isDefeated)
        activeEnemies == SelectSeq(st.combatants, LAMBDA c : ~c.isPlayer /\ ~c.isDefeated)
    IN  IF Len(activePlayers) = 0
        THEN [state |-> addToLog([st EXCEPT !.isActive = FALSE],
                                 LogEntry("All players defeated")),
              ended |-> TRUE, winners |-> "enemies"]
        ELSE IF Len(activeEnemies) = 0
        THEN [state |-> addToLog([st EXCEPT !.isActive = FALSE],
                                 LogEntry("All enemies defeated")),
              ended |-> TRUE, winners |-> "players"]
        ELSE [state |-> st, ended |-> FALSE, winners |-> Null]

CheckCombatEnd ==
    /\ LET r == checkCombatEnd(state)
       IN /\ LogRoom(r.state, 1)
          /\ state' = r.state
          /\ ret' = [NoRet EXCEPT !.op = "checkCombatEnd", !.ended = r.ended,
                                  !.winners = r.winners]
    /\ UNCHANGED <<dmAgent, characters, inputRoster, callerRoster, pending, call, files, writers, pendingConfirmations, session>>

endCombat(st) ==
    addToLog([st EXCEPT !.isActive = FALSE], LogEntry("COMBAT ENDED"))

EndCombat ==
    /\ LogRoom(endCombat(state), 1)
    /\ state' = endCombat(state)
    /\ ret' = [NoRet EXCEPT !.op = "endCombat"]
    /\ UNCHANGED <<dmAgent, characters, inputRoster, callerRoster, pending, call, files, writers, pendingConfirmations, session>>

(***************************************************************************)
(* applyDamage, applyHealing.                                              *)
(***************************************************************************)
applyDamage(st, targetId, damage) ==
    LET i == IndexOf(st, targetId)
    IN  IF i = 0 \/ st.combatants[i].isDefeated THEN st
        ELSE LET hp == Max(0, st.combatants[i].hp.current - damage)
                 hit == [st EXCEPT !.combatants[i].hp.current = hp]
                 marked == IF hp = 0
                           THEN addToLog([hit EXCEPT !.combatants[i].isDefeated = TRUE],
                                         LogEntry("defeated"))
                           ELSE hit
             IN addToLog(marked, LogEntry("takes damage"))

ApplyDamage(targetId, damage) ==
    /\ LogRoom(applyDamage(state, targetId, damage), 2)
    /\ state' = applyDamage(state, targetId, damage)
    /\ ret' = [NoRet EXCEPT !.op = "applyDamage"]
    /\ UNCHANGED <<dmAgent, characters, inputRoster, callerRoster, pending, call, files, writers, pendingConfirmations, session>>

\* Healing past hp.max that raises hp.max with it.
applyHealingRaisingMax(st, targetId, healing) ==
    LET i == IndexOf(st, targetId)
    IN  IF i = 0 \/ st.combatants[i].isDefeated THEN st
        ELSE LET hp == st.combatants[i].hp.current + healing
             IN addToLog([st EXCEPT !.combatants[i].hp.current = hp,
                                    !.combatants[i].hp.max = Max(@, hp)],
                         LogEntry("healed"))

\* Healing that does not look at the defeated flag.
applyHealingOfDefeated(st, targetId, healing) ==
    LET i == IndexOf(st, targetId)
    IN  IF i = 0 THEN st
        ELSE LET oldHP == st.combatants[i].hp.current
                 hp == Min(st.combatants[i].hp.max, oldHP + healing)
             IN addToLog([st EXCEPT !.combatants[i].hp.current = hp],
                         LogEntry("healed"))

applyHealing(st, targetId, healing) ==
    LET i == IndexOf(st, targetId)
    IN  IF i = 0 \/ st.combatants[i].isDefeated THEN st
        ELSE LET oldHP == st.combatants[i].hp.current
                 hp == Min(st.combatants[i].hp.max, oldHP + healing)
                 actualHealing == hp - oldHP
             IN addToLog([st EXCEPT !.combatants[i].hp.current = hp],
                         LogEntry("healed"))

ApplyHealing(targetId, healing) ==
    /\ LogRoom(applyHealing(state, targetId, healing), 1)
    /\ state' = applyHealing(state, targetId, healing)
    /\ ret' = [NoRet EXCEPT !.op = "applyHealing", !.targetId = targetId]
    /\ UNCHANGED <<dmAgent, characters, inputRoster, callerRoster, pending, call, files, writers, pendingConfirmations, session>>

(***************************************************************************)
(* processAttack: the part before the await on the narrative, and the part *)
(* after it.                                                               *)
(***************************************************************************)
\* the call as suspended at `await this.dmAgent.generateCombatNarrative(...)`
Suspended(actorId, targetId, hit, damage) ==
    [actorId |-> actorId, targetId |-> targetId,
     hit |-> hit, damage |-> damage]

\* Damage subtracted with no floor at 0.
applyHitUnfloored(st, t, damage) ==
    LET hp == st.combatants[t].hp.current - damage
        hurt == [st EXCEPT !.combatants[t].hp.current = hp]
    IN  IF hp = 0 THEN [hurt EXCEPT !.combatants[t].isDefeated = TRUE] ELSE hurt

\* Damage applied without the defeated mark.
applyHitUnmarked(st, t, damage) ==
    [st EXCEPT !.combatants[t].hp.current = Max(0, @ - damage)]

\* target.hp.current = Math.max(0, target.hp.current - damage) and the
\* defeated mark, on the combatant at position t
applyHit(st, t, damage) ==
    LET hp == Max(0, st.combatants[t].hp.current - damage)
        hurt == [st EXCEPT !.combatants[t].hp.current = hp]
    IN  IF hp = 0 THEN [hurt EXCEPT !.combatants[t].isDefeated = TRUE] ELSE hurt

\* lines 113-147 / 156-162: outcome is "failed" (early return), "threw"
\* (dmAgent is null) or "suspended"
processAttackBegin(st, agent, actorId, targetId, attackBonus, d20, draws, bonus) ==
    LET a == IndexOf(st, actorId)
        t == IndexOf(st, targetId)
    IN  IF a = 0 \/ t = 0
        THEN [state |-> st, outcome |-> "failed", rolled |-> FALSE, total |-> 0,
              hit |-> FALSE, damage |-> 0]
        ELSE IF st.combatants[t].isDefeated
        THEN [state |-> st, outcome |-> "failed", rolled |-> FALSE, total |-> 0,
              hit |-> FALSE, damage |-> 0]
        ELSE LET attackResult == resolveAttack(d20, attackBonus, st.combatants[t].ac, <<>>)
             IN IF attackResult.success
                THEN LET damage == resolveDamage(draws, bonus)
                     IN [state |-> applyHit(st, t, damage),
                         outcome |-> IF agent THEN "suspended" ELSE "threw",
                         rolled |-> TRUE, total |-> attackResult.roll.total,
                         hit |-> TRUE, damage |-> damage]
                ELSE [state |-> st,
                      outcome |-> IF agent THEN "suspended" ELSE "threw",
                      rolled |-> TRUE, total |-> attackResult.roll.total,
                      hit |-> FALSE, damage |-> 0]

\* lines 149-155 / 164-166, run when the narrative promise settles; the
\* target is the object looked up before the await
processAttackResume(st, p) ==
    LET t == IndexOf(st, p.targetId)
        hp == st.combatants[t].hp.current
        isDefeated == st.combatants[t].isDefeated
    IN  IF p.hit
        THEN LET logged == addToLog(st, LogEntry("HIT"))
             IN IF isDefeated
                THEN addToLog(logged, LogEntry("defeated"))
                ELSE logged
        ELSE addToLog(st, LogEntry("MISS"))

\* A call that also writes its rejection to the log.
processAttackLoggingRejection(st, agent, actorId, targetId, attackBonus, d20, draws, bonus) ==
    LET r == processAttackBegin(st, agent, actorId, targetId, attackBonus, d20, draws, bonus)
    IN  IF r.outcome = "suspended"
        THEN [r EXCEPT !.outcome = "returned",
                       !.state = processAttackResume(
                                    r.state, Suspended(actorId, targetId, r.hit, r.damage))]
        ELSE IF r.outcome = "failed"
        THEN [r EXCEPT !.state = addToLog(r.state, LogEntry("MISS"))]
        ELSE r

\* One processAttack call made by a caller that awaits it, as every caller in
\* the repository does: nothing else runs on this CombatManager between the
\* two halves.  With dmAgent null the call throws at line 142 / 157, after
\* the hp update and before the log entries.
processAttack(st, agent, actorId, targetId, attackBonus, d20, draws, bonus) ==
    LET r == processAttackBegin(st, agent, actorId, targetId, attackBonus, d20, draws, bonus)
    IN  IF r.outcome = "suspended"
        THEN [r EXCEPT !.outcome = "returned",
                       !.state = processAttackResume(
                                    r.state, Suspended(actorId, targetId, r.hit, r.damage))]
        ELSE r

AttackRet(actorId, targetId, r) ==
    [NoRet EXCEPT !.op = "processAttack", !.actorId = actorId, !.targetId = targetId,
                  !.outcome = r.outcome, !.total = r.total,
                  !.success = (r.outcome = "returned" /\ r.hit),
                  !.rolled = r.rolled, !.damage = r.damage]

ProcessAttack(actorId, targetId, attackBonus, d20, draw, bonus) ==
    /\ LET r == processAttack(state, dmAgent, actorId, targetId, attackBonus, d20,
                              <<draw>>, bonus)
       IN /\ LogRoom(r.state, 2)
          /\ state' = r.state
          /\ ret' = AttackRet(actorId, targetId, r)
    /\ UNCHANGED <<dmAgent, characters, inputRoster, callerRoster, pending, call, files, writers, pendingConfirmations, session>>

(***************************************************************************)
(* Enemy policy.                                                           *)
(***************************************************************************)
\* Targets filtered by allegiance only.
playerTargetsDefeatedToo(allCombatants) ==
    SelectSeq(allCombatants, LAMBDA c : c.isPlayer)

\* allCombatants.filter(c => c.isPlayer && !c.isDefeated)
playerTargets(allCombatants) ==
    SelectSeq(allCombatants, LAMBDA c : c.isPlayer /\ ~c.isDefeated)

\* A scan in which a later target of the same ratio replaces the earlier one.
RECURSIVE WeakestLastOfTies(_, _)
WeakestLastOfTies(weakest, rest) ==
    IF rest = <<>> THEN weakest
    ELSE LET current == Head(rest)
         IN WeakestLastOfTies(IF current.hp.current * weakest.hp.max
                                    <= weakest.hp.current * current.hp.max
                              THEN current ELSE weakest,
                              Tail(rest))

\* playerTargets.reduce(...): the first target of minimal hp.current / hp.max
\* (the two quotients are compared by cross-multiplication, hp.max > 0)
RECURSIVE Weakest(_, _)
Weakest(weakest, rest) ==
    IF rest = <<>> THEN weakest
    ELSE LET current == Head(rest)
         IN Weakest(IF current.hp.current * weakest.hp.max
                          < weakest.hp.current * current.hp.max
                    THEN current ELSE weakest,
                    Tail(rest))

\* A defensive stance taken at a quarter of the hp already.
defendsAtQuarter(enemy, random) ==
    4 * enemy.hp.current <= enemy.hp.max /\ random < 30

\* enemyHPPercent < 0.25 && Math.random() < 0.3; random is Math.random() in
\* hundredths
defends(enemy, random) ==
    4 * enemy.hp.current < enemy.hp.max /\ random < 30

decideAction(enemy, allCombatants, random) ==
    LET targets == playerTargets(allCombatants)
    IN  IF Len(targets) = 0
        THEN [action |-> "pass", targetId |-> Null]
        ELSE LET weakestPlayer == Weakest(Head(targets), Tail(targets))
             IN IF defends(enemy, random)
                THEN [action |-> "defend", targetId |-> Null]
                ELSE [action |-> "attack", targetId |-> weakestPlayer.id]

getAttackBonus(enemy) == GoblinAttackBonus

(***************************************************************************)
(* The game driver (EnhancedGame): the "combat" command starts a combat on *)
(* a new CombatManager and runs combatLoop until the combat has ended.     *)
(***************************************************************************)
\* playerTurn: `choice` is "pass" or "attack", targetNum the number typed.
\* Gives the CombatState and the character sheets after the turn.
playerTurn(st, sheets, choice, targetNum, attackBonus, d20, draw, bonus) ==
    LET combatant == st.combatants[st.turnIndex + 1]
        enemies == SelectSeq(getActiveCombatants(st), LAMBDA c : ~c.isPlayer)
        targetIndex == Min(Max(targetNum - 1, 0), Len(enemies) - 1)
    IN  IF choice = "pass" \/ targetIndex < 0
        THEN [state |-> st, characters |-> sheets]
        ELSE LET r == processAttack(st, TRUE, combatant.id, enemies[targetIndex + 1].id,
                                    attackBonus, d20, <<draw>>, bonus)
                 me == r.state.combatants[r.state.turnIndex + 1]
             IN [state |-> r.state,
                 characters |-> [sheets EXCEPT ![combatant.id] = me.hp.current]]

\* enemyTurn: the policy decides; after an attack the target is looked up
\* again and its hp copied to its character sheet
enemyTurn(st, sheets, random, d20, draw) ==
    LET combatant == st.combatants[st.turnIndex + 1]
        decision == decideAction(combatant, getActiveCombatants(st), random)
    IN  IF decision.action \in {"pass", "defend"}
        THEN [state |-> st, characters |-> sheets]
        ELSE LET r == processAttack(st, TRUE, combatant.id, decision.targetId,
                                    getAttackBonus(combatant), d20, <<draw>>, 0)
                 t == IndexOf(r.state, decision.targetId)
             IN [state |-> r.state,
                 characters |-> IF t # 0 /\ r.state.combatants[t].isPlayer
                                THEN [sheets EXCEPT ![decision.targetId] =
                                         r.state.combatants[t].hp.current]
                                ELSE sheets]

\* the rest of one pass through the while loop of combatLoop, after the turn
afterTurn(turn) ==
    LET endCheck == checkCombatEnd(turn.state)
    IN  IF endCheck.ended
        THEN [state |-> endCheck.state, characters |-> turn.characters,
              ret |-> [NoRet EXCEPT !.op = "checkCombatEnd", !.ended = TRUE,
                                    !.winners = endCheck.winners]]
        ELSE LET r == nextTurn(endCheck.state)
             IN [state |-> r.state, characters |-> turn.characters,
                 ret |-> [NoRet EXCEPT !.op = "nextTurn", !.newRound = r.newRound,
                                       !.current = r.current]]

\* the loop condition and the `if (!current) break`
LoopRuns ==
    /\ state.isActive
    /\ getCurrentCombatant(state) # Null
    /\ Len(state.combatLog) + 3 <= MaxLoopLog
    /\ state.round < MaxRound

LoopStep(turn) ==
    /\ state' = afterTurn(turn).state
    /\ characters' = afterTurn(turn).characters
    /\ ret' = afterTurn(turn).ret
    /\ UNCHANGED <<dmAgent, inputRoster, callerRoster, pending, call, files, writers, pendingConfirmations, session>>

CombatLoopPlayer(choice, targetNum, attackBonus, d20, draw, bonus) ==
    /\ LoopRuns
    /\ state.combatants[state.turnIndex + 1].isPlayer
    /\ LoopStep(playerTurn(state, characters, choice, targetNum, attackBonus, d20, draw, bonus))

CombatLoopEnemy(random, d20, draw) ==
    /\ LoopRuns
    /\ ~state.combatants[state.turnIndex + 1].isPlayer
    /\ LoopStep(enemyTurn(state, characters, random, d20, draw))

\* the "combat" command is read at the prompt, when no combat loop is running
CombatCommand(combatants) ==
    /\ ~state.isActive
    /\ Len(combatants) = Cardinality(Ids)
    /\ StartCombat(combatants)

(***************************************************************************)
(* Specifications.                                                         *)
(***************************************************************************)
\* Any caller of one CombatManager, awaiting each call.
Next ==
    \/ \E combatants \in DriverRosters(characters) : StartCombat(combatants)
    \/ GetCurrentCombatant
    \/ GetActiveCombatants
    \/ GetState
    \/ GetLog
    \/ NextTurn
    \/ CheckCombatEnd
    \/ EndCombat
    \/ \E id \in Ids \cup {UnknownId}, n \in Amounts : ApplyDamage(id, n)
    \/ \E id \in Ids \cup {UnknownId}, n \in Amounts : ApplyHealing(id, n)
    \/ \E a \in Attackers, t \in Ids \cup {UnknownId}, b \in AttackBonuses,
          roll \in AttackRolls, bonus \in DamageBonuses :
            ProcessAttack(a, t, b, roll[1], roll[2], bonus)

Spec == Init /\ [][Next]_vars

\* The game driver, combat after combat on the same character sheets.
NextGame ==
    \/ \E combatants \in DriverRosters(characters) : CombatCommand(combatants)
    \/ \E choice \in {"pass", "attack"}, n \in 1..2, b \in {FighterAttackBonus},
          d20 \in D20Draws, draw \in 1..DamageSides, bonus \in DamageBonuses :
            CombatLoopPlayer(choice, n, b, d20, draw, bonus)
    \/ \E random \in RandomDraws, d20 \in D20Draws, draw \in 1..DamageSides :
            CombatLoopEnemy(random, d20, draw)

SpecGame == Init /\ [][NextGame]_vars

\* startCombat alone, on rosters in every order.
AnyRosters ==
    UNION { { [i \in 1..n |-> Combatant(order[i], init[order[i]], MaxHP,
                                        order[i] \in PlayerIds)] :
              order \in { o \in [1..n -> Ids] :
                            \A i, j \in 1..n : i # j => o[i] # o[j] },
              init \in [Ids -> 1..MaxInitiative] } :
            n \in 0..Cardinality(Ids) }

NextRoster ==
    \/ \E combatants \in AnyRosters : StartCombat(combatants)
    \/ GetCurrentCombatant

SpecRoster == Init /\ [][NextRoster]_vars

\* A CombatManager built without a narrator, as OfflineGame.startCombat
\* builds it: new CombatManager(this.rulesEngine, null as any).
InitNoNarrator ==
    /\ state = [round |-> 0, turnIndex |-> 0, combatants |-> <<>>,
                combatLog |-> <<>>, isActive |-> FALSE]
    /\ dmAgent = FALSE
    /\ characters = [p \in PlayerIds |-> MaxHP]
    /\ inputRoster = <<>>
    /\ callerRoster = <<>>
    /\ pending = <<>>
    /\ ret = NoRet
    /\ call = NoCall
    /\ files = [p \in Paths |-> NoFile]
    /\ writers = [w \in Writers |-> IdleWriter]
    /\ pendingConfirmations = [id \in ConfirmationIds |-> NoConfirmation]
    /\ session = NewSession

NextNoNarrator ==
    \/ \E combatants \in DriverRosters(characters) : StartCombat(combatants)
    \/ GetCurrentCombatant
    \/ NextTurn
    \/ CheckCombatEnd
    \/ \E a \in Attackers, t \in Ids \cup {UnknownId}, b \in AttackBonuses,
          roll \in AttackRolls, bonus \in DamageBonuses :
            ProcessAttack(a, t, b, roll[1], roll[2], bonus)

SpecNoNarrator == InitNoNarrator /\ [][NextNoNarrator]_vars

(***************************************************************************)
(* processAttack as the event loop runs it: the call runs to its await and  *)
(* returns a pending promise; the rest runs when the narrative promise has *)
(* settled, after whatever else was called on the manager meanwhile.       *)
(***************************************************************************)
MaxPending == 2     \* processAttack calls suspended at the same time
MaxAsyncLog == 6    \* a call is made while the log has room for every suspended call

RemoveAt(s, i) == SubSeq(s, 1, i - 1) \o SubSeq(s, i + 1, Len(s))

\* the synchronous part of a call: up to the early return or the await
ProcessAttackCall(actorId, targetId, attackBonus, d20, draw, bonus) ==
    /\ Len(pending) < MaxPending
    /\ LET r == processAttackBegin(state, dmAgent, actorId, targetId, attackBonus,
                                   d20, <<draw>>, bonus)
       IN /\ \/ r.outcome = "failed"
             \/ Len(state.combatLog) + 2 * (Len(pending) + 1) <= MaxAsyncLog
          /\ state' = r.state
          /\ pending' = IF r.outcome = "suspended"
                        THEN Append(pending, Suspended(actorId, targetId, r.hit, r.damage))
                        ELSE pending
          /\ ret' = AttackRet(actorId, targetId, r)
    /\ UNCHANGED <<dmAgent, characters, inputRoster, callerRoster, call, files, writers, pendingConfirmations, session>>

\* the narrative of the i-th suspended call has arrived: the call appends its
\* log entries and returns
NarrativeSettles(i) ==
    /\ i \in 1..Len(pending)
    /\ state' = processAttackResume(state, pending[i])
    /\ pending' = RemoveAt(pending, i)
    /\ ret' = [NoRet EXCEPT !.op = "processAttack", !.actorId = pending[i].actorId,
                            !.targetId = pending[i].targetId, !.outcome = "returned",
                            !.success = pending[i].hit, !.rolled = TRUE,
                            !.damage = pending[i].damage]
    /\ UNCHANGED <<dmAgent, characters, inputRoster, callerRoster, call, files, writers, pendingConfirmations, session>>

\* A combat is started while no call is suspended (a suspended call keeps the
\* combatant objects of the combat it was made in); here, a combat of two.
NextAsync ==
    \/ \E combatants \in DriverRosters(characters) :
          pending = <<>> /\ Len(combatants) = 2 /\ StartCombat(combatants)
    \/ \E a \in Attackers, t \in Ids \cup {UnknownId}, b \in AttackBonuses,
          roll \in AttackRolls, bonus \in DamageBonuses :
            ProcessAttackCall(a, t, b, roll[1], roll[2], bonus)
    \/ \E i \in 1..MaxPending : NarrativeSettles(i)
    \/ NextTurn
    \/ CheckCombatEnd

SpecAsync == Init /\ [][NextAsync]_vars

(***************************************************************************)
(* The stateless functions, called on arguments of every kind.             *)
(***************************************************************************)
PolicyPlayerIds == {"player1", "player2"}
\* <<hp.current, hp.max>>: ratios 0, 0.25, 0.5, 0.2, 0.3, 0.5
PolicyHps == {<<0, 4>>, <<1, 4>>, <<2, 4>>, <<2, 10>>, <<3, 10>>, <<5, 10>>}

PolicyCombatant(id, pair, player, defeated) ==
    [Combatant(id, 1, pair[1], player) EXCEPT !.hp.max = pair[2],
                                              !.isDefeated = defeated]

\* <<id, <<hp.current, hp.max>>, isPlayer, isDefeated>>: a combatant is marked
\* defeated only with hp.current 0
PolicyPool ==
    { <<id, pair, TRUE, FALSE>> : id \in PolicyPlayerIds, pair \in PolicyHps }
    \cup { <<id, pair, TRUE, TRUE>> :
             id \in PolicyPlayerIds, pair \in {h \in PolicyHps : h[1] = 0} }
    \cup { <<"enemy2", <<2, 4>>, FALSE, FALSE>> }

MaxPolicyList == 3  \* length of the list passed to decideAction

PolicyLists ==
    UNION { { l \in [1..n -> PolicyPool] :
                \A i, j \in 1..n : i # j => l[i][1] # l[j][1] } :
            n \in 0..MaxPolicyList }

\* One call is looked at: the function keeps nothing between calls.
DecideAction ==
    /\ call = NoCall
    /\ \E pair \in PolicyHps, l \in PolicyLists, random \in RandomDraws :
          LET enemy == PolicyCombatant("enemy1", pair, FALSE, FALSE)
              allCombatants ==
                  [i \in 1..Len(l) |-> PolicyCombatant(l[i][1], l[i][2], l[i][3], l[i][4])]
          IN call' = [fn |-> "decideAction", enemy |-> enemy,
                      allCombatants |-> allCombatants, random |-> random,
                      result |-> decideAction(enemy, allCombatants, random)]
    /\ UNCHANGED <<state, dmAgent, characters, inputRoster, callerRoster, pending, ret, files, writers, pendingConfirmations, session>>

MaxRulesHP == 11  \* hit points and damage passed to the rules engine, either sign

RulesHPs == (0 - MaxRulesHP)..MaxRulesHP
RulesMaxHPs == 1..MaxRulesHP
RulesDamages == (0 - MaxRulesHP)..MaxRulesHP

\* wounded from half of maxHP on, instead of below it
rulesStatusWoundedAtHalf(newHP, maxHP) ==
    IF newHP <= -10 THEN "dead"
    ELSE IF newHP < 0 THEN "dying"
    ELSE IF newHP = 0 THEN "disabled"
    ELSE IF 2 * newHP <= maxHP THEN "wounded"
    ELSE "healthy"

\* the if / else-if chain of RulesEngine.applyDamage; newHP < maxHP / 2 is a
\* comparison of numbers, not an integer division
rulesStatus(newHP, maxHP) ==
    IF newHP <= -10 THEN "dead"
    ELSE IF newHP < 0 THEN "dying"
    ELSE IF newHP = 0 THEN "disabled"
    ELSE IF 2 * newHP < maxHP THEN "wounded"
    ELSE "healthy"

\* the damage added instead of subtracted
rulesNewHPAdding(currentHP, damage) == Max(-10, currentHP + damage)

\* const newHP = Math.max(-10, currentHP - damage)
rulesNewHP(currentHP, damage) == Max(-10, currentHP - damage)

\* statusChanges holds the name of the condition pushed by the branch taken
RulesEngine_applyDamage(currentHP, maxHP, damage) ==
    LET newHP == rulesNewHP(currentHP, damage)
        status == rulesStatus(newHP, maxHP)
    IN [newHP |-> newHP,
        status |-> status,
        statusChanges |-> IF status = "dead" THEN <<"Dead">>
                          ELSE IF status = "dying" THEN <<"Dying">>
                          ELSE IF status = "disabled" THEN <<"Disabled">>
                          ELSE <<>>]

RulesApplyDamage ==
    /\ call = NoCall
    /\ \E currentHP \in RulesHPs, maxHP \in RulesMaxHPs, damage \in RulesDamages :
          call' = [fn |-> "applyDamage", currentHP |-> currentHP, maxHP |-> maxHP,
                   damage |-> damage,
                   result |-> RulesEngine_applyDamage(currentHP, maxHP, damage)]
    /\ UNCHANGED <<state, dmAgent, characters, inputRoster, callerRoster, pending, ret, files, writers, pendingConfirmations, session>>

\* A second call on the same hit points, to set its result beside the
\* first one's; `earlier` is the first call.
RulesApplyDamageAgain ==
    /\ call.fn = "applyDamage"
    /\ "earlier" \notin DOMAIN call
    /\ \E damage \in RulesDamages :
          call' = [fn |-> "applyDamage", currentHP |-> call.currentHP,
                   maxHP |-> call.maxHP, damage |-> damage,
                   result |-> RulesEngine_applyDamage(call.currentHP, call.maxHP, damage),
                   earlier |-> call]
    /\ UNCHANGED <<state, dmAgent, characters, inputRoster, callerRoster, pending, ret, files, writers, pendingConfirmations, session>>

MaxRulesHealing == 20  \* largest healing passed to the rules engine

RulesHealings == (0 - MaxRulesHP)..MaxRulesHealing

\* newHP without the cap at maxHP
RulesEngine_applyHealingUncapped(currentHP, maxHP, healing) ==
    [newHP |-> currentHP + healing,
     overheal |-> Max(0, (currentHP + healing) - maxHP)]

RulesEngine_applyHealing(currentHP, maxHP, healing) ==
    [newHP |-> Min(maxHP, currentHP + healing),
     overheal |-> Max(0, (currentHP + healing) - maxHP)]

RulesApplyHealing ==
    /\ call = NoCall
    /\ \E currentHP \in RulesHPs, maxHP \in RulesMaxHPs, healing \in RulesHealings :
          call' = [fn |-> "applyHealing", currentHP |-> currentHP, maxHP |-> maxHP,
                   healing |-> healing,
                   result |-> RulesEngine_applyHealing(currentHP, maxHP, healing)]
    /\ UNCHANGED <<state, dmAgent, characters, inputRoster, callerRoster, pending, ret, files, writers, pendingConfirmations, session>>

D20Sides == 20

RulesD20s == 1..D20Sides
RulesBonuses == {-2, 0, 3}
RulesACs == {1, 15, 22, 25}
RulesModifierLists == {<<>>, <<2>>, <<-1, -4>>, <<1, 1, 1>>}

ResolveAttack ==
    /\ call = NoCall
    /\ \E d20 \in RulesD20s, attackBonus \in RulesBonuses, targetAC \in RulesACs,
          additionalModifiers \in RulesModifierLists :
          call' = [fn |-> "resolveAttack", d20 |-> d20, attackBonus |-> attackBonus,
                   targetAC |-> targetAC, additionalModifiers |-> additionalModifiers,
                   result |-> resolveAttack(d20, attackBonus, targetAC, additionalModifiers)]
    /\ UNCHANGED <<state, dmAgent, characters, inputRoster, callerRoster, pending, ret, files, writers, pendingConfirmations, session>>

NextFunctions ==
    \/ DecideAction
    \/ RulesApplyDamage
    \/ RulesApplyDamageAgain
    \/ RulesApplyHealing
    \/ ResolveAttack

SpecFunctions == Init /\ [][NextFunctions]_vars

(***************************************************************************)
(* PersistenceAgent.  writeFile is async: it is suspended at its           *)
(* fs.readFile, fs.mkdir and fs.writeFile, and other calls run meanwhile.   *)
(***************************************************************************)
MaxVersion == 2  \* largest version a request expects or a markdown header carries

\* what fs.writeFile of writeFile stores: the content with version and lastModifiedBy
JsonFile(version, lastModifiedBy) ==
    [kind |-> "json", version |-> version, lastModifiedBy |-> lastModifiedBy]

\* what writeMarkdown stores: a YAML header with version and lastModifiedBy, then text
MarkdownFile(version, lastModifiedBy) ==
    [kind |-> "markdown", version |-> version, lastModifiedBy |-> lastModifiedBy]

InFlight == {"read", "mkdir", "write"}

\* the call, up to await fs.readFile; `during` is the set of calls in flight then
WriteFileBegin(w, path, expectedVersion) ==
    /\ writers[w].pc = "idle"
    /\ IF files[path].kind = "none" THEN TRUE ELSE files[path].version <= MaxVersion
    /\ writers' = [writers EXCEPT ![w] =
           [pc |-> "read",
            request |-> [path |-> path, expectedVersion |-> expectedVersion,
                         modifiedBy |-> w],
            during |-> {u \in Writers \ {w} : writers[u].pc \in InFlight}]]
    /\ UNCHANGED files
    /\ UNCHANGED <<state, dmAgent, characters, inputRoster, callerRoster, pending, ret, call, pendingConfirmations, session>>

\* the stored version is read but not compared with expectedVersion
writeFileCheckSkipped(file, request) ==
    IF file.kind = "json"
    THEN [conflict |-> FALSE, currentVersion |-> file.version]
    ELSE [conflict |-> FALSE, currentVersion |-> 0]

\* From the settled fs.readFile to the conflict return or to await fs.mkdir.
\* A missing file makes fs.readFile throw and a markdown file makes
\* JSON.parse throw; the empty catch then leaves currentVersion 0 and the
\* version is not compared.  existing.version || 0 is the version of a file
\* that writeFile stored.
writeFileCheck(file, request) ==
    IF file.kind = "json"
    THEN [conflict |-> file.version # request.expectedVersion,
          currentVersion |-> file.version]
    ELSE [conflict |-> FALSE, currentVersion |-> 0]

WriteFileRead(w) ==
    /\ writers[w].pc = "read"
    /\ LET me == writers[w]
           file == files[me.request.path]
           check == writeFileCheck(file, me.request)
       IN writers' = [writers EXCEPT ![w] =
             IF check.conflict
             THEN [pc |-> "done", request |-> me.request, during |-> me.during,
                   seen |-> file,
                   response |-> [success |-> FALSE,
                                 conflict |-> [expectedVersion |-> me.request.expectedVersion,
                                               actualVersion |-> check.currentVersion,
                                               lastModifiedBy |-> file.lastModifiedBy]]]
             ELSE [pc |-> "mkdir", request |-> me.request, during |-> me.during,
                   seen |-> file,
                   newVersion |-> check.currentVersion + 1]]
    /\ UNCHANGED files
    /\ UNCHANGED <<state, dmAgent, characters, inputRoster, callerRoster, pending, ret, call, pendingConfirmations, session>>

\* fs.mkdir settles and fs.writeFile is called
WriteFileMkdir(w) ==
    /\ writers[w].pc = "mkdir"
    /\ writers' = [writers EXCEPT ![w].pc = "write"]
    /\ UNCHANGED files
    /\ UNCHANGED <<state, dmAgent, characters, inputRoster, callerRoster, pending, ret, call, pendingConfirmations, session>>

\* fs.writeFile stores the content and settles; success is returned
WriteFileWrite(w) ==
    /\ writers[w].pc = "write"
    /\ LET me == writers[w]
       IN /\ files' = [files EXCEPT ![me.request.path] =
                          JsonFile(me.newVersion, me.request.modifiedBy)]
          /\ writers' = [writers EXCEPT ![w] =
                [pc |-> "done", request |-> me.request, during |-> me.during,
                 seen |-> me.seen,
                 response |-> [success |-> TRUE, newVersion |-> me.newVersion]]]
    /\ UNCHANGED <<state, dmAgent, characters, inputRoster, callerRoster, pending, ret, call, pendingConfirmations, session>>

\* the caller has its response and may call again
WriteFileReturn(w) ==
    /\ writers[w].pc = "done"
    /\ writers' = [writers EXCEPT ![w] = IdleWriter]
    /\ UNCHANGED files
    /\ UNCHANGED <<state, dmAgent, characters, inputRoster, callerRoster, pending, ret, call, pendingConfirmations, session>>

WriteMarkdown(path, version, lastModifiedBy) ==
    /\ files' = [files EXCEPT ![path] = MarkdownFile(version, lastModifiedBy)]
    /\ UNCHANGED writers
    /\ UNCHANGED <<state, dmAgent, characters, inputRoster, callerRoster, pending, ret, call, pendingConfirmations, session>>

DeleteFile(path) ==
    /\ files[path].kind # "none"
    /\ files' = [files EXCEPT ![path] = NoFile]
    /\ UNCHANGED writers
    /\ UNCHANGED <<state, dmAgent, characters, inputRoster, callerRoster, pending, ret, call, pendingConfirmations, session>>

NextPersistence ==
    \/ \E w \in Writers, path \in Paths, expectedVersion \in 0..MaxVersion :
          WriteFileBegin(w, path, expectedVersion)
    \/ \E w \in Writers : WriteFileRead(w)
    \/ \E w \in Writers : WriteFileMkdir(w)
    \/ \E w \in Writers : WriteFileWrite(w)
    \/ \E w \in Writers : WriteFileReturn(w)
    \/ \E path \in Paths, version \in 1..MaxVersion : WriteMarkdown(path, version, "dm")
    \/ \E path \in Paths : DeleteFile(path)

SpecPersistence == Init /\ [][NextPersistence]_vars

(***************************************************************************)
(* CoordinatorAgent: confirmations.  Neither method awaits, so each call   *)
(* is one step; a thrown Error is the result of the call.                   *)
(***************************************************************************)
MaxConfirmedBy == 2  \* length of confirmedBy: a player may approve more than once

SeqContains(seq, x) == \E i \in 1..Len(seq) : seq[i] = x

\* the targetPlayerIds arrays passed: p3 is never a target
TargetLists ==
    {<<>>, <<"p1">>, <<"p2">>, <<"p1", "p2">>, <<"p2", "p1">>}

RequestConfirmation(confirmationId, targetPlayerIds) ==
    /\ pendingConfirmations' = [pendingConfirmations EXCEPT ![confirmationId] =
           [requested |-> TRUE, targetPlayerIds |-> targetPlayerIds, confirmedBy |-> <<>>]]
    /\ ret' = [op |-> "requestConfirmation", confirmationId |-> confirmationId]
    /\ UNCHANGED <<state, dmAgent, characters, inputRoster, callerRoster, pending, call, files, writers, session>>

\* some target has confirmed, instead of every target
someConfirmed(entry) ==
    \E i \in 1..Len(entry.targetPlayerIds) :
        SeqContains(entry.confirmedBy, entry.targetPlayerIds[i])

\* pending.targetPlayerIds.every(id => pending.confirmedBy.includes(id))
allConfirmed(entry) ==
    \A i \in 1..Len(entry.targetPlayerIds) :
        SeqContains(entry.confirmedBy, entry.targetPlayerIds[i])

\* the map after the call and what the call gave: "true", "false" or the Error thrown
recordConfirmation(confirmations, confirmationId, playerId, approved) ==
    LET entry == confirmations[confirmationId]
        approvedEntry == [entry EXCEPT !.confirmedBy = Append(@, playerId)]
    IN IF ~entry.requested
       THEN [pendingConfirmations |-> confirmations, result |-> "not found"]
       ELSE IF ~SeqContains(entry.targetPlayerIds, playerId)
       THEN [pendingConfirmations |-> confirmations, result |-> "not in confirmation targets"]
       ELSE IF ~approved
       THEN [pendingConfirmations |->
                 [confirmations EXCEPT ![confirmationId] = NoConfirmation],
             result |-> "false"]
       ELSE IF allConfirmed(approvedEntry)
       THEN [pendingConfirmations |->
                 [confirmations EXCEPT ![confirmationId] = NoConfirmation],
             result |-> "true"]
       ELSE [pendingConfirmations |->
                 [confirmations EXCEPT ![confirmationId] = approvedEntry],
             result |-> "false"]

RecordConfirmation(confirmationId, playerId, approved) ==
    /\ IF pendingConfirmations[confirmationId].requested
       THEN Len(pendingConfirmations[confirmationId].confirmedBy) < MaxConfirmedBy
       ELSE TRUE
    /\ LET r == recordConfirmation(pendingConfirmations, confirmationId, playerId, approved)
       IN /\ pendingConfirmations' = r.pendingConfirmations
          /\ ret' = [op |-> "recordConfirmation", confirmationId |-> confirmationId,
                     playerId |-> playerId, approved |-> approved, result |-> r.result]
    /\ UNCHANGED <<state, dmAgent, characters, inputRoster, callerRoster, pending, call, files, writers, session>>

NextCoordinator ==
    \/ \E confirmationId \in ConfirmationIds, targetPlayerIds \in TargetLists :
          RequestConfirmation(confirmationId, targetPlayerIds)
    \/ \E confirmationId \in ConfirmationIds, playerId \in ConfirmPlayers,
          approved \in BOOLEAN :
          RecordConfirmation(confirmationId, playerId, approved)

SpecCoordinator == Init /\ [][NextCoordinator]_vars

(***************************************************************************)
(* Session state (schemas/session-state.ts): each function returns a new   *)
(* session, which the caller passes to the next call.                       *)
(***************************************************************************)
MaxSessionVersion == 9  \* calls made on one session

SessionIds == {"a", "b", "c"}

\* the initiative orders passed to startCombat: 1 to 3 different ids
InitiativeOrders ==
    UNION { { o \in [1..n -> SessionIds] : \A i, j \in 1..n : i # j => o[i] # o[j] } :
            n \in 1..Cardinality(SessionIds) }

sessionStartCombat(s, initiativeOrder) ==
    [s EXCEPT !.gameState = [phase |-> "combat",
                             initiativeOrder |-> initiativeOrder,
                             currentTurn |-> initiativeOrder[1],
                             round |-> 1,
                             turnNumber |-> 1],
              !.version = @ + 1]

\* initiativeOrder[nextIndex] is element nextIndex + 1 of the sequence; the
\* order is not empty, so that the remainder and the quotient are numbers
sessionNextTurn(s) ==
    IF s.gameState.phase # "combat"
    THEN s
    ELSE LET initiativeOrder == s.gameState.initiativeOrder
             nextTurnNumber == s.gameState.turnNumber + 1
             nextIndex == nextTurnNumber % Len(initiativeOrder)
             nextRound == (nextTurnNumber \div Len(initiativeOrder)) + 1
         IN [s EXCEPT !.gameState.currentTurn = initiativeOrder[nextIndex + 1],
                      !.gameState.turnNumber = nextTurnNumber,
                      !.gameState.round = nextRound,
                      !.version = @ + 1]

sessionEndCombat(s) ==
    [s EXCEPT !.gameState = [phase |-> "exploration"], !.version = @ + 1]

SessionStartCombat(initiativeOrder) ==
    /\ session.version < MaxSessionVersion
    /\ session' = sessionStartCombat(session, initiativeOrder)
    /\ UNCHANGED <<state, dmAgent, characters, inputRoster, callerRoster, pending, ret, call, files, writers, pendingConfirmations>>

SessionNextTurn ==
    /\ session.version < MaxSessionVersion
    /\ session' = sessionNextTurn(session)
    /\ UNCHANGED <<state, dmAgent, characters, inputRoster, callerRoster, pending, ret, call, files, writers, pendingConfirmations>>

SessionEndCombat ==
    /\ session.version < MaxSessionVersion
    /\ session' = sessionEndCombat(session)
    /\ UNCHANGED <<state, dmAgent, characters, inputRoster, callerRoster, pending, ret, call, files, writers, pendingConfirmations>>

NextSession ==
    \/ \E initiativeOrder \in InitiativeOrders : SessionStartCombat(initiativeOrder)
    \/ SessionNextTurn
    \/ SessionEndCombat

SpecSession == Init /\ [][NextSession]_vars

(***************************************************************************)
(* Properties.                                                             *)
(***************************************************************************)
Started == state.round >= 1
N == Len(state.combatants)
SomeoneLive(st) == \E i \in 1..Len(st.combatants) : ~st.combatants[i].isDefeated
LivePlayer(st) == \E i \in 1..Len(st.combatants) :
                     st.combatants[i].isPlayer /\ ~st.combatants[i].isDefeated
LiveEnemy(st) == \E i \in 1..Len(st.combatants) :
                    ~st.combatants[i].isPlayer /\ ~st.combatants[i].isDefeated
DefeatedById(st, id) == IndexOf(st, id) # 0 /\ st.combatants[IndexOf(st, id)].isDefeated

\* C1: on an active combat, the combatant nextTurn returns as current, which
\* is the one getCurrentCombatant then reports, is not defeated whenever some
\* combatant of the roster is not defeated - also on the call that wraps
\* turnIndex to 0.
C1_NextTurnNeverReturnsDefeated ==
    (ret.op = "nextTurn" /\ state.isActive /\ SomeoneLive(state))
        => /\ ret.current # Null
           /\ ~DefeatedById(state, ret.current)
           /\ getCurrentCombatant(state) = ret.current

\* C2: once a started combat is inactive, a nextTurn or processAttack call is
\* rejected (no roll, no success) and leaves round, turnIndex, the
\* combatants' hp and defeated flags and the log as they were.
C2_InactiveRejectsMutation ==
    [][(Started /\ ~state.isActive /\ ret'.op \in {"nextTurn", "processAttack"})
          => /\ state' = state
             /\ ~ret'.rolled /\ ~ret'.success /\ ret'.current = Null]_vars

\* C3: after startCombat every combatant is defeated exactly if its
\* hp.current is at most 0, also in the combats the game driver starts from
\* character sheets whose hp was carried over from an earlier combat.
C3_DefeatedIffNoHp ==
    Started => \A i \in 1..N :
                  state.combatants[i].isDefeated <=> state.combatants[i].hp.current <= 0

\* C4 (as claimed): on a started combat, getCurrentCombatant,
\* getActiveCombatants and checkCombatEnd leave the whole CombatState
\* unchanged, and a call repeated right after the first returns what the
\* first returned.
QueryOps == {"getCurrentCombatant", "getActiveCombatants", "checkCombatEnd"}

C4_QueriesHaveNoSideEffects ==
    [][(Started /\ ret'.op \in QueryOps)
          => /\ state' = state
             /\ ret.op = ret'.op => ret' = ret]_vars

\* C4 (amended): getCurrentCombatant and getActiveCombatants leave the
\* CombatState unchanged; checkCombatEnd leaves round, turnIndex and the
\* combatants unchanged and the whole state unchanged when it returns
\* ended=false, but when it returns ended=true it sets isActive to false and
\* appends one entry to the log, on every such call; a call of any of the
\* three repeated right after the first returns what the first returned.
C4_QueriesAmended ==
    [][ret'.op \in QueryOps
          => /\ ret'.op # "checkCombatEnd" => state' = state
             /\ (ret'.op = "checkCombatEnd" /\ ~ret'.ended) => state' = state
             /\ (ret'.op = "checkCombatEnd" /\ ret'.ended)
                   => /\ state'.round = state.round
                      /\ state'.turnIndex = state.turnIndex
                      /\ state'.combatants = state.combatants
                      /\ ~state'.isActive
                      /\ Len(state'.combatLog) = Len(state.combatLog) + 1
                      /\ SubSeq(state'.combatLog, 1, Len(state.combatLog)) = state.combatLog
             /\ ret.op = ret'.op => ret' = ret]_vars

\* checkCombatEnd has reported the end twice in a row: the log ends with two
\* end-of-combat entries
C4_Witness ==
    /\ ret.op = "checkCombatEnd" /\ ret.ended /\ ~state.isActive
    /\ Len(state.combatLog) >= 2
    /\ state.combatLog[Len(state.combatLog)].kind
          \in {"All players defeated", "All enemies defeated"}
    /\ state.combatLog[Len(state.combatLog) - 1].kind
          \in {"All players defeated", "All enemies defeated"}

\* C5: startCombat stores a permutation of its input, ordered by initiative
\* descending, combatants of equal initiative in their input order; the
\* caller's array keeps its order.
PositionIn(roster, id) == CHOOSE i \in 1..Len(roster) : roster[i].id = id

C5_StableSortByInitiative ==
    ret.op = "startCombat"
        => /\ Len(state.combatants) = Len(inputRoster)
           /\ \A i \in 1..Len(inputRoster) :
                 \E j \in 1..N : state.combatants[j] = inputRoster[i]
           /\ \A i, j \in 1..N :
                 i < j => \/ state.combatants[i].initiative > state.combatants[j].initiative
                          \/ /\ state.combatants[i].initiative = state.combatants[j].initiative
                             /\ PositionIn(inputRoster, state.combatants[i].id)
                                   < PositionIn(inputRoster, state.combatants[j].id)
           /\ callerRoster = inputRoster

\* three combatants were passed with two of equal initiative placed before a
\* third of higher initiative
C5_Witness ==
    /\ ret.op = "startCombat" /\ Len(inputRoster) = 3
    /\ inputRoster[1].initiative = inputRoster[2].initiative
    /\ inputRoster[3].initiative > inputRoster[1].initiative
    /\ state.combatants[1] = inputRoster[3]

\* C6: processAttack naming an actor or a target that is not in the
\* CombatState, or a target already defeated, returns failure without an
\* attack roll and leaves the whole CombatState unchanged.
C6_InvalidAttackFailsFast ==
    [][(/\ ret'.op = "processAttack"
        /\ \/ IndexOf(state, ret'.actorId) = 0
           \/ IndexOf(state, ret'.targetId) = 0
           \/ DefeatedById(state, ret'.targetId))
          => /\ state' = state
             /\ ret'.outcome = "failed" /\ ~ret'.rolled /\ ~ret'.success]_vars

\* a call on an already defeated target has failed
C6_Witness ==
    /\ ret.op = "processAttack" /\ ret.outcome = "failed"
    /\ IndexOf(state, ret.actorId) # 0
    /\ DefeatedById(state, ret.targetId)

\* C7: a processAttack on known combatants and a target not yet defeated:
\* when the roll total reaches the target's armor class the target's hp
\* becomes max(0, hp - damage) and the target is defeated exactly if that is
\* 0; when it does not, hp and the defeated flag stay; no other combatant
\* changes either way.
C7_AttackEffect ==
    [][(/\ ret'.op = "processAttack"
        /\ IndexOf(state, ret'.actorId) # 0
        /\ IndexOf(state, ret'.targetId) # 0
        /\ ~DefeatedById(state, ret'.targetId))
          => LET t == IndexOf(state, ret'.targetId)
                 old == state.combatants[t]
                 new == state'.combatants[t]
             IN  /\ ret'.rolled
                 /\ Len(state'.combatants) = Len(state.combatants)
                 /\ \A i \in 1..Len(state.combatants) :
                       i # t => state'.combatants[i] = state.combatants[i]
                 /\ new = [old EXCEPT !.hp.current = new.hp.current,
                                      !.isDefeated = new.isDefeated]
                 /\ IF ret'.total >= old.ac
                    THEN /\ new.hp.current = Max(0, old.hp.current - ret'.damage)
                         /\ new.isDefeated <=> new.hp.current = 0
                    ELSE /\ new.hp.current = old.hp.current
                         /\ new.isDefeated = old.isDefeated]_vars

\* a hit whose roll total equals the armor class left the target alive
C7_Witness ==
    /\ ret.op = "processAttack" /\ ret.outcome = "returned" /\ ret.success
    /\ IndexOf(state, ret.targetId) # 0
    /\ ret.total = state.combatants[IndexOf(state, ret.targetId)].ac
    /\ ret.damage > 0
    /\ state.combatants[IndexOf(state, ret.targetId)].hp.current > 0

\* C8: checkCombatEnd returns ended with winners enemies when no player is
\* left undefeated, ended with winners players when a player is and no enemy
\* is, and not ended when both sides have one; isActive is false after an
\* ended result and unchanged after the other.
C8_CombatEndOutcome ==
    [][ret'.op = "checkCombatEnd"
          => /\ ~LivePlayer(state') => (ret'.ended /\ ret'.winners = "enemies")
             /\ (LivePlayer(state') /\ ~LiveEnemy(state'))
                   => (ret'.ended /\ ret'.winners = "players")
             /\ (LivePlayer(state') /\ LiveEnemy(state')) => ~ret'.ended
             /\ ret'.ended => ~state'.isActive
             /\ ~ret'.ended => state'.isActive = state.isActive]_vars

\* the players have won a combat against enemies
C8_Witness ==
    /\ ret.op = "checkCombatEnd" /\ ret.ended /\ ret.winners = "players"
    /\ ~state.isActive
    /\ \E i \in 1..N : ~state.combatants[i].isPlayer

\* C9: a nextTurn call on an active combat of N >= 1 combatants adds exactly
\* 1 to round when turnIndex wraps past the last position to 0 (the position
\* does not move forward) and leaves round alone when it does not.
C9_RoundPerCycle ==
    [][(ret'.op = "nextTurn" /\ state.isActive /\ N >= 1)
          => IF state'.turnIndex <= state.turnIndex
             THEN /\ state'.turnIndex = 0
                  /\ state'.round = state.round + 1
                  /\ ret'.newRound
             ELSE /\ state'.round = state.round
                  /\ ~ret'.newRound]_vars

\* a call that skipped a defeated combatant has wrapped into round 2
C9_Witness ==
    /\ ret.op = "nextTurn" /\ ret.newRound /\ state.round = 2 /\ N = 3
    /\ state.combatants[3].isDefeated
    /\ state.turnIndex = 0

\* C10: once a started combat is inactive, no operation of the manager makes
\* it active again.
C10_EndedIsTerminal ==
    [][(Started /\ ~state.isActive) => ~state'.isActive]_vars

\* the same roster before and after a step, with a combatant whose
\* hp.current or defeated flag differs
HpOrDefeatedChanges ==
    /\ Len(state'.combatants) = Len(state.combatants)
    /\ \E i \in 1..N :
          /\ state'.combatants[i].id = state.combatants[i].id
          /\ \/ state'.combatants[i].hp.current # state.combatants[i].hp.current
             \/ state'.combatants[i].isDefeated # state.combatants[i].isDefeated

\* C11: after startCombat, a combatant's hp.current and defeated flag change
\* only in a processAttack call: no other operation of the manager writes
\* them.
C11_OnlyProcessAttackWritesHp ==
    [][(Started /\ ret'.op # "startCombat" /\ HpOrDefeatedChanges)
          => ret'.op = "processAttack"]_vars

\* id, initiative, armor class, allegiance and hp.max of a combatant
FixedPart(c) == <<c.id, c.initiative, c.ac, c.isPlayer, c.hp.max>>

\* C12: after startCombat, nextTurn, processAttack, applyDamage, applyHealing,
\* checkCombatEnd and endCombat leave the combatants sequence with the same
\* members in the same order, each with its id, initiative, armor class,
\* allegiance and hp.max.
C12_RosterIsFixed ==
    [][(Started /\ ret'.op \in {"nextTurn", "processAttack", "applyDamage",
                                "applyHealing", "checkCombatEnd", "endCombat"})
          => /\ Len(state'.combatants) = Len(state.combatants)
             /\ \A i \in 1..N :
                   FixedPart(state'.combatants[i]) = FixedPart(state.combatants[i])]_vars

\* in round 2 of a combat of three, a wounded combatant has been healed
C12_Witness ==
    /\ ret.op = "applyHealing" /\ N = 3 /\ state.round = 2
    /\ state.combatLog[Len(state.combatLog)].kind = "healed"
    /\ \E i \in 1..N : state.combatants[i].hp.current > 0

\* C13: the log is append-only: for every operation after startCombat, the
\* reads getLog and getState included, the log before the operation is a
\* prefix of the log after it.
C13_LogIsAppendOnly ==
    [][(Started /\ ret'.op # "startCombat")
          => /\ Len(state'.combatLog) >= Len(state.combatLog)
             /\ SubSeq(state'.combatLog, 1, Len(state.combatLog)) = state.combatLog]_vars

\* an attack has appended its hit and the defeat after two other entries of
\* the combat
C13_Witness ==
    /\ ret.op = "processAttack" /\ Len(state.combatLog) = MaxLog
    /\ state.combatLog[Len(state.combatLog)].kind = "defeated"
    /\ state.combatLog[Len(state.combatLog) - 1].kind = "HIT"
    /\ state.combatLog[3].kind # "HIT"

\* the entries the log gained in a step
Appended == SubSeq(state'.combatLog, Len(state.combatLog) + 1, Len(state'.combatLog))

\* C14: a processAttack that made its attack roll completes whether or not
\* narrative generation works: it returns its outcome, and the log gains the
\* MISS entry, or the HIT entry followed by the defeat entry when the target
\* was defeated - also on a CombatManager that has no narrative generator.
C14_NarrativeFailureDoesNotBlock ==
    [][(ret'.op = "processAttack" /\ ret'.rolled)
          => LET t == IndexOf(state, ret'.targetId)
             IN  /\ ret'.outcome = "returned"
                 /\ IF ret'.total >= state.combatants[t].ac
                    THEN Appended = IF state'.combatants[t].isDefeated
                                    THEN <<LogEntry("HIT"), LogEntry("defeated")>>
                                    ELSE <<LogEntry("HIT")>>
                    ELSE Appended = <<LogEntry("MISS")>>]_vars

\* a call is suspended between its HP update and its log entries
HitSuspended == \E i \in 1..Len(pending) : pending[i].hit /\ pending[i].damage > 0

\* C15: processAttack is one atomic step: while a call is between its HP
\* update and its log entries, the only thing that runs on the CombatState is
\* the rest of that call - no nextTurn, checkCombatEnd, applyDamage,
\* applyHealing or other processAttack.
C15_AttackIsAtomic ==
    [][(HitSuspended /\ ret'.op \in {"nextTurn", "checkCombatEnd", "applyDamage",
                                     "applyHealing", "processAttack"})
          => /\ ret'.op = "processAttack" /\ ret'.outcome = "returned"
             /\ Len(pending) = 1 /\ pending' = <<>>]_vars

\* The scenario of the specification: PlayerA (initiative 18) and Goblin1
\* (initiative 9, hp 6, AC 15); PlayerA attacks with bonus 6, the d20 shows
\* 15, the damage dice show 11; then checkCombatEnd is called.
ScenarioRoster ==
    <<Combatant("player1", 18, MaxHP, TRUE),
      [Combatant("enemy1", 9, 6, FALSE) EXCEPT !.hp.max = 6]>>

ScenarioHolds ==
    LET started == startCombat(state, ScenarioRoster)
        attack == processAttack(started, TRUE, "player1", "enemy1", 6, 15, <<11>>, 0)
        goblin == attack.state.combatants[2]
        endCheck == checkCombatEnd(attack.state)
    IN  /\ started.combatants = ScenarioRoster
        /\ attack.outcome = "returned" /\ attack.hit /\ attack.total = 21
        /\ attack.damage = 11
        /\ goblin.id = "enemy1" /\ goblin.hp.current = 0 /\ goblin.isDefeated
        /\ endCheck.ended /\ endCheck.winners = "players"
        /\ ~endCheck.state.isActive

\* C16: a processAttack hit whose damage is at least the hp of an adversary
\* leaves it at 0 hp and defeated; when that was the last adversary not yet
\* defeated and a player is not defeated, the checkCombatEnd that follows
\* returns ended with winners players and the combat is inactive.  The
\* scenario of the specification ends that way.
C16_LastAdversaryEndsCombat ==
    [][/\ ScenarioHolds
       /\ LET t == IndexOf(state, ret'.targetId)
          IN (/\ ret'.op = "processAttack" /\ ret'.success
              /\ ~state.combatants[t].isPlayer
              /\ state.combatants[t].hp.current <= ret'.damage)
                => /\ state'.combatants[t].hp.current = 0
                   /\ state'.combatants[t].isDefeated
       /\ (/\ ret.op = "processAttack" /\ ret.success
           /\ DefeatedById(state, ret.targetId)
           /\ ~LiveEnemy(state) /\ LivePlayer(state)
           /\ ret'.op = "checkCombatEnd")
             => /\ ret'.ended /\ ret'.winners = "players"
                /\ ~state'.isActive]_vars

\* checkCombatEnd has declared the player the winner right after the hit that
\* defeated the only adversary
C16_Witness ==
    /\ ret.op = "checkCombatEnd" /\ ret.ended /\ ret.winners = "players"
    /\ ~state.isActive /\ N = 2
    /\ Len(state.combatLog) >= 3
    /\ state.combatLog[Len(state.combatLog)].kind = "All enemies defeated"
    /\ state.combatLog[Len(state.combatLog) - 1].kind = "defeated"
    /\ state.combatLog[Len(state.combatLog) - 2].kind = "HIT"

Decided == call.fn = "decideAction"
LiveTargets(l) == {i \in 1..Len(l) : l[i].isPlayer /\ ~l[i].isDefeated}
\* hp.current / hp.max of a is less than that of b
RatioLess(a, b) == a.hp.current * b.hp.max < b.hp.current * a.hp.max

\* C17: decideAction returns pass, with no targetId, exactly when the list it
\* is given holds no player that is not defeated, whatever the adversary's
\* own hp and the random draw; its results are pass, defend and attack.
C17_PassIffNoLiveTarget ==
    Decided
        => /\ call.result.action \in {"pass", "defend", "attack"}
           /\ call.result.action = "pass" <=> LiveTargets(call.allCombatants) = {}
           /\ call.result.action = "pass" => call.result.targetId = Null

\* pass was returned for a list holding a defeated player and an adversary,
\* to an adversary low on hp with a low random draw
C17_Witness ==
    /\ Decided /\ call.result.action = "pass"
    /\ 4 * call.enemy.hp.current < call.enemy.hp.max /\ call.random < 30
    /\ \E i \in 1..Len(call.allCombatants) :
          call.allCombatants[i].isPlayer /\ call.allCombatants[i].isDefeated
    /\ \E i \in 1..Len(call.allCombatants) : ~call.allCombatants[i].isPlayer

\* C18: when decideAction returns attack, its targetId is the id of a player
\* of the list that is not defeated, whose hp.current / hp.max is minimal
\* among those, and that comes first in the list among those of that ratio.
C18_AttackTargetsWeakest ==
    (Decided /\ call.result.action = "attack")
        => LET l == call.allCombatants
           IN \E i \in LiveTargets(l) :
                 /\ l[i].id = call.result.targetId
                 /\ \A j \in LiveTargets(l) : ~RatioLess(l[j], l[i])
                 /\ \A j \in LiveTargets(l) : j < i => RatioLess(l[i], l[j])

\* the attack went to the first of two players at the same ratio with
\* different hp, listed after an adversary
C18_Witness ==
    /\ Decided /\ call.result.action = "attack"
    /\ Len(call.allCombatants) = 3
    /\ ~call.allCombatants[1].isPlayer
    /\ call.allCombatants[2].hp = [current |-> 5, max |-> 10]
    /\ call.allCombatants[3].hp = [current |-> 2, max |-> 4]
    /\ ~call.allCombatants[2].isDefeated /\ ~call.allCombatants[3].isDefeated
    /\ call.result.targetId = call.allCombatants[2].id

\* C19: decideAction returns defend exactly when the list holds a player not
\* defeated, the adversary's hp.current / hp.max is below 0.25 and the random
\* draw is below 0.30; with a player not defeated it returns attack otherwise,
\* also at a ratio of exactly 0.25 or a draw of exactly 0.30.
C19_DefendWhenLowAndDrawn ==
    Decided
        => LET low == 4 * call.enemy.hp.current < call.enemy.hp.max
               drawn == call.random < 30
               live == LiveTargets(call.allCombatants) # {}
           IN /\ call.result.action = "defend" <=> (live /\ low /\ drawn)
              /\ (live /\ ~(low /\ drawn)) => call.result.action = "attack"

\* an adversary at exactly a quarter of its hp attacked on a low draw
C19_Witness ==
    /\ Decided /\ call.result.action = "attack"
    /\ 4 * call.enemy.hp.current = call.enemy.hp.max /\ call.random < 30

Damaged == call.fn = "applyDamage"

\* C20: for integer currentHP, maxHP > 0 and damage, the rules engine's
\* applyDamage returns newHP = max(-10, currentHP - damage) and the status of
\* the first rule that matches, in the order newHP <= -10 dead, newHP < 0
\* dying, newHP = 0 disabled, newHP < maxHP / 2 wounded, else healthy;
\* statusChanges is non-empty exactly for dead, dying and disabled.
C20_DamageStatus ==
    Damaged
        => LET r == call.result
               diff == call.currentHP - call.damage
           IN /\ r.newHP = (IF diff < -10 THEN -10 ELSE diff)
              /\ r.status = "dead" <=> r.newHP <= -10
              /\ r.status = "dying" <=> (-10 < r.newHP /\ r.newHP < 0)
              /\ r.status = "disabled" <=> r.newHP = 0
              /\ r.status = "wounded" <=> (0 < r.newHP /\ 2 * r.newHP < call.maxHP)
              /\ r.status = "healthy" <=> (0 < r.newHP /\ 2 * r.newHP >= call.maxHP)
              /\ r.statusChanges # <<>> <=> r.status \in {"dead", "dying", "disabled"}

\* 1 damage at -9 of 10 hit points gave newHP -10 and dead
C20_Witness ==
    /\ Damaged
    /\ call.currentHP = -9 /\ call.maxHP = 10 /\ call.damage = 1
    /\ call.result.newHP = -10 /\ call.result.status = "dead"
    /\ call.result.statusChanges # <<>>

\* two calls of the rules engine's applyDamage on the same hit points, the
\* second with at least the damage of the first, neither negative
DamagedTwice ==
    /\ Damaged
    /\ "earlier" \in DOMAIN call
    /\ 0 <= call.earlier.damage
    /\ call.earlier.damage <= call.damage

\* C21: for every currentHP and maxHP and all damages 0 <= d1 <= d2,
\* applyDamage(currentHP, maxHP, d2).newHP <= applyDamage(currentHP, maxHP,
\* d1).newHP <= currentHP.
C21_DamageMonotonic ==
    DamagedTwice
        => /\ call.result.newHP <= call.earlier.result.newHP
           /\ call.earlier.result.newHP <= call.currentHP

\* C21 as amended: for all damages 0 <= d1 <= d2 the newHP for d2 is at most
\* the newHP for d1, and the newHP for d1 is at most currentHP when currentHP
\* is at least -10.
C21_DamageMonotonicAmended ==
    DamagedTwice
        => /\ call.result.newHP <= call.earlier.result.newHP
           /\ call.currentHP >= -10 => call.earlier.result.newHP <= call.currentHP

\* from 5 hit points, 2 damage and then 7 gave 3 and -2
C21_Witness ==
    /\ DamagedTwice
    /\ call.currentHP = 5 /\ call.earlier.damage = 2 /\ call.damage = 7
    /\ call.earlier.result.newHP = 3 /\ call.result.newHP = -2

Healed == call.fn = "applyHealing"

\* newHP and overheal as the formulas of the claim give them
HealingFormulas ==
    LET sum == call.currentHP + call.healing
        r == call.result
    IN /\ r.newHP = (IF sum > call.maxHP THEN call.maxHP ELSE sum)
       /\ r.newHP <= call.maxHP
       /\ r.overheal = (IF sum > call.maxHP THEN sum - call.maxHP ELSE 0)
       /\ r.newHP + r.overheal = sum

HealingInstance == call.currentHP = 5 /\ call.maxHP = 10 /\ call.healing = 20

\* C22: for all currentHP, maxHP and healing >= 0, the rules engine's
\* applyHealing returns newHP = min(maxHP, currentHP + healing), which never
\* exceeds maxHP, and overheal = max(0, currentHP + healing - maxHP), so that
\* newHP + overheal = currentHP + healing; applyHealing(5, 10, 20) gives
\* newHP 10 and overheal 5.
C22_HealingCapped ==
    (Healed /\ call.healing >= 0)
        => /\ HealingFormulas
           /\ HealingInstance => call.result = [newHP |-> 10, overheal |-> 5]

\* C22 as amended: the same formulas, and applyHealing(5, 10, 20) gives
\* newHP 10 and overheal 15.
C22_HealingCappedAmended ==
    (Healed /\ call.healing >= 0)
        => /\ HealingFormulas
           /\ HealingInstance => call.result = [newHP |-> 10, overheal |-> 15]

\* applyHealing(5, 10, 20) was called and healed past maxHP
C22_Witness ==
    /\ Healed /\ HealingInstance
    /\ call.result.newHP = call.maxHP /\ call.result.overheal > 0

Resolved == call.fn = "resolveAttack"

\* C23: for every d20 draw in 1..20, attack bonus, extra modifiers and target
\* AC, resolveAttack reports success exactly when d20 + attackBonus + the sum
\* of the extra modifiers is at least the AC: a total equal to the AC hits,
\* and neither a natural 20 nor a natural 1 overrides the comparison.
C23_AttackHitsOnTotal ==
    Resolved
        => LET total == call.d20 + call.attackBonus + SeqSum(call.additionalModifiers)
           IN /\ call.result.roll.total = total
              /\ call.result.success <=> total >= call.targetAC

\* a draw of 15 with bonus 0 and no extra modifier hit AC 15
C23_Witness ==
    /\ Resolved
    /\ call.d20 = 15 /\ call.attackBonus = 0 /\ call.additionalModifiers = <<>>
    /\ call.targetAC = 15
    /\ call.result.success

\* writeFile of w returns in this step
Returns(w) == writers[w].pc \in InFlight /\ writers'[w].pc = "done"

Concurrent(w1, w2) == w1 \in writers[w2].during \/ w2 \in writers[w1].during

\* C25: of two writeFile calls for the same path with the same
\* expectedVersion that run concurrently, at most one returns success.
C25_OneConcurrentWriterWins ==
    \A w1, w2 \in Writers :
        (/\ w1 # w2
         /\ writers[w1].pc = "done" /\ writers[w2].pc = "done"
         /\ writers[w1].request.path = writers[w2].request.path
         /\ writers[w1].request.expectedVersion = writers[w2].request.expectedVersion
         /\ Concurrent(w1, w2))
            => ~(writers[w1].response.success /\ writers[w2].response.success)

Recorded == ret'.op = "recordConfirmation"

\* C26: recordConfirmation returns true exactly on the call after which every
\* target player has approved; it returns false for an approval that leaves a
\* target unconfirmed and for any rejection; a rejection or the completing
\* approval removes the pending confirmation, so that a later call for that
\* id fails with 'not found'; a response from a player outside the targets is
\* rejected without changing the pending state.
C26_ConfirmationCompletes ==
    [][Recorded
         => LET id == ret'.confirmationId
                player == ret'.playerId
                entry == pendingConfirmations[id]
                others == \A o \in ConfirmationIds \ {id} :
                              pendingConfirmations'[o] = pendingConfirmations[o]
            IN IF ~entry.requested
               THEN ret'.result = "not found"
                    /\ pendingConfirmations' = pendingConfirmations
               ELSE IF \A i \in 1..Len(entry.targetPlayerIds) :
                          entry.targetPlayerIds[i] # player
               THEN ret'.result = "not in confirmation targets"
                    /\ pendingConfirmations' = pendingConfirmations
               ELSE /\ others
                    /\ ret'.result \in {"true", "false"}
                    /\ ret'.result = "true"
                          <=> /\ ret'.approved
                              /\ \A i \in 1..Len(entry.targetPlayerIds) :
                                    \/ entry.targetPlayerIds[i] = player
                                    \/ \E j \in 1..Len(entry.confirmedBy) :
                                          entry.confirmedBy[j] = entry.targetPlayerIds[i]
                    /\ (~ret'.approved \/ ret'.result = "true")
                          => ~pendingConfirmations'[id].requested
                    /\ (ret'.approved /\ ret'.result = "false")
                          => /\ pendingConfirmations'[id].requested
                             /\ pendingConfirmations'[id].targetPlayerIds
                                    = entry.targetPlayerIds
                             /\ pendingConfirmations'[id].confirmedBy
                                    = Append(entry.confirmedBy, player)]_vars

\* the second of two targets approved: true was returned, the confirmation
\* is gone and the other one is still pending
C26_Witness ==
    /\ ret.op = "recordConfirmation" /\ ret.confirmationId = "edit1"
    /\ ret.playerId = "p1" /\ ret.approved /\ ret.result = "true"
    /\ ~pendingConfirmations["edit1"].requested
    /\ pendingConfirmations["edit2"].requested
    /\ pendingConfirmations["edit2"].targetPlayerIds = <<"p1", "p2">>
    /\ pendingConfirmations["edit2"].confirmedBy = <<"p2">>

\* C27: when checkCombatEnd is called with no player and no enemy left
\* undefeated, an empty roster included, it returns ended with winners
\* enemies: the players' side is looked at first.
C27_BothSidesDownFavoursEnemies ==
    [][(ret'.op = "checkCombatEnd" /\ ~LivePlayer(state) /\ ~LiveEnemy(state))
          => /\ ret'.ended
             /\ ret'.winners = "enemies"
             /\ ~state'.isActive]_vars

\* a player and an enemy of the roster are both defeated, nobody is left,
\* and the enemies were declared winners
C27_Witness ==
    /\ ret.op = "checkCombatEnd" /\ ret.ended /\ ret.winners = "enemies"
    /\ ~LivePlayer(state) /\ ~LiveEnemy(state)
    /\ \E i \in 1..N : state.combatants[i].isPlayer
    /\ \E i \in 1..N : ~state.combatants[i].isPlayer

C29_DefeatIsPermanent ==
    [][ret'.op # "startCombat"
          => \A i \in 1..N :
                state.combatants[i].isDefeated
                    => /\ Len(state'.combatants) = N
                       /\ state'.combatants[i].id = state.combatants[i].id
                       /\ state'.combatants[i].isDefeated
                       /\ state'.combatants[i].hp.current
                              = state.combatants[i].hp.current]_vars

\* applyHealing was called for a defeated combatant, which is still defeated
\* with no hp
C29_Witness ==
    /\ ret.op = "applyHealing"
    /\ \E i \in 1..N :
          /\ state.combatants[i].id = ret.targetId
          /\ state.combatants[i].isDefeated
          /\ state.combatants[i].hp.current = 0

\* the position of id in the order
OrderIndex(order, id) == CHOOSE i \in 1..Len(order) : order[i] = id

\* a nextTurn step of the session functions, in a combat
SessionTurned ==
    /\ session.gameState.phase = "combat"
    /\ session'.gameState.phase = "combat"
    /\ session'.gameState.initiativeOrder = session.gameState.initiativeOrder
    /\ session'.version = session.version + 1
    /\ session'.gameState.turnNumber = session.gameState.turnNumber + 1

\* C30: after startCombat(session, order) with N >= 2 entries, each nextTurn
\* moves currentTurn to the entry after it in the order, the first one after
\* the last, without skipping any, and round grows by 1 exactly when
\* currentTurn comes back to order[0].
C30_SessionTurnsCycle ==
    [][(SessionTurned /\ Len(session.gameState.initiativeOrder) >= 2)
          => LET order == session.gameState.initiativeOrder
                 at == OrderIndex(order, session.gameState.currentTurn)
                 next == IF at = Len(order) THEN 1 ELSE at + 1
             IN /\ session'.gameState.currentTurn = order[next]
                /\ session'.gameState.round
                      = IF next = 1 THEN session.gameState.round + 1
                        ELSE session.gameState.round]_vars

====
